---- MODULE Spec2Model ----
(***************************************************************************)
(* Model of auto_thrust_tester.ino: the test sequencer of a thrust test    *)
(* stand (setup, loop, startTest, stepTest, endTest), its button wait      *)
(* (delayCheckButton), the servo ramp and probe (rampServo, checkServo)    *)
(* and the log file allocator (getFileName, isMatchingFormat, getFileNum). *)
(*                                                                         *)
(* The firmware is one thread.  Every blocking routine is unrolled into    *)
(* its polling steps: pc is the position of the thread, stk the return     *)
(* positions of the calls in progress.  Each digitalRead, each force       *)
(* reading and each result of the SD library is an input drawn with \E.    *)
(* Strings are sequences of one-character strings.                         *)
(***************************************************************************)
EXTENDS Integers, Sequences, FiniteSets

(***************************************************************************)
(* Compile-time configuration (#define) and fixed numbers of the sketch.   *)
(***************************************************************************)
SAMPLE_MS == 250
MIN_TEST_FORCE == 50
TIME_AT_MAX_THROTTLE == 3000
maxServoPos == 180 + (TIME_AT_MAX_THROTTLE \div SAMPLE_MS)
PollMs == 50
MaxOverheadCounted == 200
MaxLoggedPos == 180
MaxFileNumber == 999
NameBufSize == 10
ProbePos == 90
ProbeStepMs == 60
ProbeSkipMs == 2000
ProbeHoldMs == 1000
ScrollDwellMs == 2000
IdleWaitMs == 250
ReadyPairs == 2
CardFailedPairs == 2
TooHighPairs == 3

(***************************************************************************)
(* Bounds of the model.                                                    *)
(***************************************************************************)
MaxSessions == 2

HIGH == "HIGH"
LOW == "LOW"
ButtonReadings == {HIGH, LOW}

\* force readings delivered by scale.get_units(10) in checkServo, in grams
Forces == {0, 50, 101}

\* force readings delivered by scale.get_units(1) in stepTest, in grams
SampleForces == {0, 101}

\* time spent since the previous sample when stepTest is entered, in ms
Overheads == {0, 100, 220, 250}

(***************************************************************************)
(* Arithmetic helpers: the Arduino min, max and abs macros.                *)
(***************************************************************************)
Min(a, b) == IF a < b THEN a ELSE b

Max(a, b) == IF a > b THEN a ELSE b

Abs(x) == IF x > 0 THEN x ELSE -x

SetMax(S) == CHOOSE x \in S : \A y \in S : y <= x

(***************************************************************************)
(* Strings.                                                                *)
(***************************************************************************)
DigitChars == <<"0", "1", "2", "3", "4", "5", "6", "7", "8", "9">>

isdigit(c) == \E i \in 1..10 : DigitChars[i] = c

DigitVal(c) == (CHOOSE i \in 1..10 : DigitChars[i] = c) - 1

strlen(s) == Len(s)

\* strncmp(s + off, pat, Len(pat)) == 0 ; reading stops at the end of s
strncmpEq(s, off, pat) ==
    /\ off >= 0
    /\ off + Len(pat) <= Len(s)
    /\ \A k \in 1..Len(pat) : s[off + k] = pat[k]

\* strstr(s, pat): offset of the first occurrence of pat in s, -1 for NULL
strstr(s, pat) ==
    LET hits == {o \in 0..(Len(s) - Len(pat)) : strncmpEq(s, o, pat)}
    IN  IF hits = {} THEN -1 ELSE CHOOSE o \in hits : \A p \in hits : o <= p

\* atoi on a string without sign or blanks: the value of its leading digits
RECURSIVE atoiFrom(_, _, _)
atoiFrom(s, i, acc) ==
    IF i > Len(s) \/ ~isdigit(s[i]) THEN acc
    ELSE atoiFrom(s, i + 1, acc * 10 + DigitVal(s[i]))

atoi(s) == atoiFrom(s, 1, 0)

\* "%d" of a non-negative int
RECURSIVE Dec(_)
Dec(n) == IF n < 10 THEN <<DigitChars[n + 1]>>
          ELSE Dec(n \div 10) \o <<DigitChars[(n % 10) + 1]>>

TPrefix == <<"t", "_">>
CsvSuffix == <<".", "c", "s", "v">>

\* snprintf(buf, size, "t_%d.csv", n): at most size - 1 characters are kept
snprintfName(size, n) ==
    LET full == TPrefix \o Dec(n) \o CsvSuffix
    IN  SubSeq(full, 1, Min(Len(full), size - 1))

(***************************************************************************)
(* isMatchingFormat (lines 437-461).                                       *)
(***************************************************************************)
NameLengthOk(nameLength) == ~(nameLength < 7 \/ nameLength > 10)

isMatchingFormat(fileName) ==
    LET nameLength == strlen(fileName)
    IN  IF ~NameLengthOk(nameLength) THEN FALSE
        ELSE IF ~strncmpEq(fileName, 0, TPrefix)
                \/ ~strncmpEq(fileName, nameLength - 4, CsvSuffix) THEN FALSE
        ELSE \A i \in 2..(nameLength - 5) : isdigit(fileName[i + 1])

(***************************************************************************)
(* getFileNum (lines 464-487).                                             *)
(***************************************************************************)
getFileNum(fileName) ==
    LET numStart == 2
        numEnd == strstr(fileName, CsvSuffix)
    IN  IF numStart < numEnd
        THEN atoi(SubSeq(fileName, numStart + 1, numEnd))
        ELSE 0

(***************************************************************************)
(* The directory crawl of getFileName (lines 391-411): the largest number  *)
(* among the matching entries, starting from the cached value.             *)
(***************************************************************************)
ScanDir(dir, cached) ==
    SetMax({cached} \cup {getFileNum(f) : f \in {g \in dir : isMatchingFormat(g)}})

\* variant: the allocator advances by two
NextNum_Skipping(cached) == cached + 2

NextNum(cached) == cached + 1

\* variant: the limit is tested one number too late
NeedsWrap_Late(nextFileNum) == nextFileNum > MaxFileNumber + 1

NeedsWrap(nextFileNum) == nextFileNum > MaxFileNumber

(***************************************************************************)
(* checkServo's verdict (lines 329-342).                                   *)
(***************************************************************************)
\* variant: the verdict does not look at the flag
ServoFound_IgnoringSkip(flag, startF, endF) == Abs(endF - startF) > MIN_TEST_FORCE

ServoFound(flag, startF, endF) ==
    IF ~flag THEN FALSE
    ELSE Abs(endF - startF) > MIN_TEST_FORCE

(***************************************************************************)
(* stepTest's wait (line 546).                                             *)
(***************************************************************************)
\* the remainder of the sample period, floored at 0
WaitRemaining_Floored(elapsed) == Max(0, SAMPLE_MS - elapsed)

WaitRemaining(elapsed) == SAMPLE_MS - Min(MaxOverheadCounted, elapsed)

(***************************************************************************)
(* loop's conditions (lines 627, 631, 640, 643).                           *)
(***************************************************************************)
IdleCond(flag, active) == flag /\ ~active

\* variant: a false flag only starts a test
ToggleCond_StartOnly(flag, active) == ~flag /\ ~active

ToggleCond(flag, active) == ~flag

\* variant: line 640 is missing
FlagAfterBranch_Kept(flag) == flag

FlagAfterBranch(flag) == TRUE

StepCond(flag, active) == active /\ flag

(***************************************************************************)
(* State.                                                                  *)
(*   Globals of the sketch: continueFlag, scaleActive, servoPos,           *)
(*   servoStep, servoChecked, servoActive, cardExists, maxFileNum,         *)
(*   activeFileName, unitForce, maxForce, buttonState.                     *)
(*   Devices: servoOut is the last value given to myServo.write, fileOpen  *)
(*   tells whether the global File is open, catalog is the set of file     *)
(*   names in the root directory at power-up, as entry.getName delivers    *)
(*   them into the 10 byte buffer fileName (at most 9 characters); the     *)
(*   directory is only read while maxFileNum is 0, that is before the      *)
(*   sketch has created any file.                                          *)
(*   Locals of the routines in progress: total, dcbDt, dcbFull             *)
(*   (delayCheckButton), rampSetPos, rampStep, rampDt (rampServo),         *)
(*   scrollLeft (pairs of lines printLcdScroll has still to show),         *)
(*   startForce (checkServo).                                              *)
(*   Build: contSync tells whether CONT_SYNC is defined.                   *)
(*   History, read by the properties only: press (a LOW reading has set    *)
(*   continueFlag to false since the sketch last set it to true),          *)
(*   sessions, scans (calls of startTest, crawls of the directory that     *)
(*   could open it), returned (the names getFileName has returned),     *)
(*   dirNums (the numbers of the t_N.csv files on the card at power-up),   *)
(*   probeOutcome (result of the probe of the         *)
(*   session), matchInput and matchResult (input and output of the         *)
(*   matcher when it is exercised on its own), logged (the records written *)
(*   to the log in the session in progress, a run of rows shown as one     *)
(*   row), rowPos (the position given to the last writeData of the         *)
(*   session in progress), syncAbort (the tick has taken the failed-sync   *)
(*   return in the session in progress), overhead (the time since the      *)
(*   previous sample that the tick in progress has measured), rampFrom     *)
(*   (servoPos at the call of the rampServo in progress).                  *)
(***************************************************************************)
VARIABLES continueFlag, press, scaleActive,
          servoPos, servoStep, servoOut,
          servoChecked, servoActive, startForce, probeOutcome,
          cardExists, maxFileNum, activeFileName, fileOpen, catalog,
          scans, returned, dirNums,
          unitForce, maxForce,
          total, dcbDt, dcbFull, buttonState,
          rampSetPos, rampStep, rampDt, rampFrom,
          logged, rowPos, syncAbort, overhead,
          scrollLeft, pc, stk, sessions, contSync,
          matchInput, matchResult

flagV == <<continueFlag, press>>
servoV == <<servoPos, servoStep, servoOut>>
probeV == <<servoChecked, startForce, probeOutcome>>
fileV == <<maxFileNum, activeFileName, fileOpen, catalog, scans, returned>>
forceV == <<unitForce, maxForce>>
dcbV == <<total, dcbDt, dcbFull, buttonState>>
rampV == <<rampSetPos, rampStep, rampDt, rampFrom>>
logV == <<logged, rowPos, syncAbort, overhead>>
fixedV == <<servoActive, contSync, dirNums, matchInput, matchResult>>

vars == <<flagV, scaleActive, servoV, probeV, cardExists, fileV, forceV,
          dcbV, rampV, logV, scrollLeft, pc, stk, sessions, fixedV>>

(***************************************************************************)
(* The card at power-up.                                                   *)
(***************************************************************************)
DirSeeds == {{}, {7, 42}, {997}, {998}, {999}}

\* the builds and cards explored: AUTO_TEST defined or not, CONT_SYNC
\* defined or not, the numbers of the t_N.csv files on the card
Builds ==
    {[auto |-> TRUE, sync |-> FALSE, nums |-> {7, 42}],
     [auto |-> TRUE, sync |-> TRUE, nums |-> {998}]}
    \cup {[auto |-> FALSE, sync |-> FALSE, nums |-> n] : n \in DirSeeds}

JunkNames == { <<"t", "_", "x", ".", "c", "s", "v">>,
               <<"t", "_", "1", "x", ".", "c", "s", "v">>,
               <<"l", "o", "g", "1", ".", "c", "s", "v">>,
               <<"t", "_", "5", "0", ".", "t", "x", "t">>,
               <<"T", "_", "6", "0", ".", "C", "S", "V">>,
               <<"t", "_", ".", "c", "s", "v">> }

NoName == <<>>

(***************************************************************************)
(* Init: the globals as initialised at lines 101-121, servoChecked and     *)
(* servoActive as AUTO_TEST decides (lines 109-115), the thread at the     *)
(* call of setupCard in setup.                                             *)
(***************************************************************************)
InitGlobals ==
    /\ continueFlag = TRUE
    /\ press = FALSE
    /\ scaleActive = FALSE
    /\ servoPos = 0
    /\ servoStep = 0
    /\ servoOut = 0
    /\ startForce = 0
    /\ probeOutcome = "none"
    /\ cardExists = FALSE
    /\ maxFileNum = 0
    /\ activeFileName = NoName
    /\ fileOpen = FALSE
    /\ scans = 0
    /\ returned = <<>>
    /\ unitForce = 0
    /\ maxForce = 0
    /\ total = 0
    /\ dcbDt = 0
    /\ dcbFull = FALSE
    /\ buttonState = HIGH
    /\ rampSetPos = 0
    /\ rampStep = 0
    /\ rampDt = 0
    /\ rampFrom = 0
    /\ logged = <<>>
    /\ rowPos = <<>>
    /\ syncAbort = FALSE
    /\ overhead = 0
    /\ scrollLeft = 0
    /\ stk = <<>>
    /\ sessions = 0

Init ==
    /\ InitGlobals
    /\ pc = "setupCard"
    /\ \E b \in Builds :
          /\ servoChecked = ~b.auto
          /\ servoActive = b.auto
          /\ contSync = b.sync
          /\ dirNums = b.nums
    /\ catalog = {snprintfName(NameBufSize, n) : n \in dirNums} \cup JunkNames
    /\ matchInput = NoName
    /\ matchResult = "none"

(***************************************************************************)
(* Calls and returns.                                                      *)
(***************************************************************************)
Call(label, ret) == pc' = label /\ stk' = <<ret>> \o stk

Return == pc' = Head(stk) /\ stk' = Tail(stk)

\* delayCheckButton(dt, full), lines 207-208
CallDelayCheckButton(dt, full, ret) ==
    /\ Call("dcb_loop1", ret)
    /\ total' = 0
    /\ buttonState' = HIGH
    /\ dcbDt' = dt
    /\ dcbFull' = full

\* printLcdScroll(text) with a text of 2 * pairs lines
CallPrintLcdScroll(pairs, ret) ==
    /\ Call("scroll_loop", ret)
    /\ scrollLeft' = pairs

\* a ramp that always steps upwards
RampStep_Up(setPos, pos) == 1

\* lines 297-298: int step = (diff < 0) ? -1 : 1
RampStep(setPos, pos) == IF setPos - pos < 0 THEN -1 ELSE 1

\* rampServo(setPos, dt), lines 290-298
CallRampServo(setPos, dt, ret) ==
    /\ Call("ramp_loop", ret)
    /\ rampSetPos' = setPos
    /\ rampFrom' = servoPos
    /\ rampStep' = RampStep(setPos, servoPos)
    /\ rampDt' = dt

(***************************************************************************)
(* delayCheckButton, first loop (lines 210-219): poll until dt has passed, *)
(* the flag is false or the button reads LOW.                              *)
(***************************************************************************)
\* a wait that polls once more when the time is used up
WaitMore_Inclusive(t, dt) == t <= dt

\* lines 210 and 221: the part of the wait still to run
WaitMore(t, dt) == t < dt

DelayCheckButton_Wait ==
    /\ pc = "dcb_loop1"
    /\ IF WaitMore(total, dcbDt) /\ continueFlag
       THEN \E b \in ButtonReadings :
              /\ buttonState' = b
              /\ IF b = LOW
                 THEN /\ continueFlag' = FALSE
                      /\ press' = TRUE
                      /\ pc' = "dcb_loop2"
                      /\ total' = total
                 ELSE /\ total' = total + PollMs
                      /\ UNCHANGED <<flagV, pc>>
       ELSE /\ pc' = "dcb_loop2"
            /\ UNCHANGED <<flagV, total, buttonState>>
    /\ UNCHANGED <<dcbDt, dcbFull, stk, scaleActive, servoV, probeV, cardExists,
                   fileV, forceV, rampV, scrollLeft, sessions, logV, fixedV>>

(***************************************************************************)
(* delayCheckButton, second loop (lines 221-229).                          *)
(***************************************************************************)
DelayCheckButton_Release ==
    /\ pc = "dcb_loop2"
    /\ IF WaitMore(total, dcbDt) /\ (dcbFull \/ buttonState = LOW)
       THEN \E b \in ButtonReadings :
              /\ buttonState' = b
              /\ IF b = HIGH
                 THEN /\ Return
                      /\ total' = 0 /\ dcbDt' = 0 /\ dcbFull' = FALSE
                 ELSE /\ total' = total + PollMs
                      /\ UNCHANGED <<pc, stk, dcbDt, dcbFull>>
       ELSE /\ Return
            /\ total' = 0 /\ dcbDt' = 0 /\ dcbFull' = FALSE
            /\ UNCHANGED buttonState
    /\ UNCHANGED <<flagV, scaleActive, servoV, probeV, cardExists,
                   fileV, forceV, rampV, scrollLeft, sessions, logV, fixedV>>

(***************************************************************************)
(* printLcdScroll (lines 181-191): one wait per pair of lines.             *)
(***************************************************************************)
PrintLcdScroll ==
    /\ pc = "scroll_loop"
    /\ IF scrollLeft > 0
       THEN /\ scrollLeft' = scrollLeft - 1
            /\ CallDelayCheckButton(ScrollDwellMs, FALSE, "scroll_loop")
       ELSE /\ Return
            /\ UNCHANGED <<scrollLeft, dcbV>>
    /\ UNCHANGED <<flagV, scaleActive, servoV, probeV, cardExists,
                   fileV, forceV, rampV, sessions, logV, fixedV>>

(***************************************************************************)
(* setupCard (lines 241-248).                                              *)
(***************************************************************************)
SetupCard ==
    /\ pc = "setupCard"
    /\ \E sdOk \in BOOLEAN :
          IF sdOk
          THEN continueFlag' = FALSE /\ cardExists' = TRUE
          ELSE UNCHANGED <<continueFlag, cardExists>>
    /\ pc' = "setupCard_while"
    /\ UNCHANGED <<press, stk, scaleActive, servoV, probeV, fileV, forceV,
                   dcbV, rampV, scrollLeft, sessions, logV, fixedV>>

SetupCard_While ==
    /\ pc = "setupCard_while"
    /\ IF continueFlag
       THEN /\ CallPrintLcdScroll(CardFailedPairs, "setupCard_while")
            /\ UNCHANGED flagV
       ELSE /\ continueFlag' = TRUE
            /\ press' = FALSE
            /\ pc' = "loop_idle"
            /\ UNCHANGED <<stk, scrollLeft>>
    /\ UNCHANGED <<scaleActive, servoV, probeV, cardExists, fileV, forceV,
                   dcbV, rampV, sessions, logV, fixedV>>

(***************************************************************************)
(* getFileName (lines 384-425, 433): the crawl, done while the cached      *)
(* number is 0, and the allocation of the next number.                     *)
(***************************************************************************)
GetFileName ==
    /\ pc = "gfn_begin"
    /\ \E dirOk \in BOOLEAN :
         LET crawl == (maxFileNum = 0)
             found == IF crawl /\ dirOk THEN ScanDir(catalog, maxFileNum)
                      ELSE maxFileNum
             nextFileNum == NextNum(found)
         IN  /\ scans' = (IF crawl /\ dirOk THEN scans + 1 ELSE scans)
             /\ maxFileNum' = nextFileNum
             /\ IF NeedsWrap(nextFileNum)
                THEN /\ continueFlag' = TRUE
                     /\ press' = FALSE
                     /\ pc' = "gfn_wait"
                     /\ UNCHANGED <<stk, activeFileName, returned>>
                ELSE /\ activeFileName' = snprintfName(NameBufSize, nextFileNum)
                     /\ returned' = Append(returned, activeFileName')
                     /\ Return
                     /\ UNCHANGED flagV
    /\ UNCHANGED <<fileOpen, catalog, scaleActive, servoV, probeV, cardExists,
                   forceV, dcbV, rampV, scrollLeft, sessions, logV, fixedV>>

(***************************************************************************)
(* getFileName, number above 999 (lines 426-433): show the notice until    *)
(* the flag is false, then restart at 1.                                   *)
(***************************************************************************)
WrapNum == 1

GetFileName_Wrap ==
    /\ pc = "gfn_wait"
    /\ IF continueFlag
       THEN /\ CallPrintLcdScroll(TooHighPairs, "gfn_wait")
            /\ UNCHANGED <<flagV, maxFileNum, activeFileName, returned>>
       ELSE /\ continueFlag' = TRUE
            /\ press' = FALSE
            /\ maxFileNum' = WrapNum
            /\ activeFileName' = snprintfName(NameBufSize, WrapNum)
            /\ returned' = Append(returned, activeFileName')
            /\ Return
            /\ UNCHANGED scrollLeft
    /\ UNCHANGED <<fileOpen, catalog, scans, scaleActive, servoV, probeV,
                   cardExists, forceV, dcbV, rampV, sessions, logV, fixedV>>

(***************************************************************************)
(* startTest (lines 494-517).                                              *)
(***************************************************************************)
StartStep == 2

\* startTest that names and opens a file whatever setupCard found
OpenWanted_Always(card) == TRUE

\* line 495: the file is named and opened only with a card
OpenWanted(card) == card

StartTest_Begin ==
    /\ pc = "start_begin"
    /\ servoStep' = StartStep
    /\ IF OpenWanted(cardExists)
       THEN Call("gfn_begin", "start_open")
       ELSE pc' = "start_probe" /\ UNCHANGED stk
    /\ UNCHANGED <<flagV, scaleActive, servoPos, servoOut, probeV, cardExists,
                   fileV, forceV, dcbV, rampV, scrollLeft, sessions, logV, fixedV>>

\* file.open(activeFileName, FILE_WRITE) and writeHeader, lines 497-501
HeaderRec == "header"

RowRec == "row"

\* lines 497-500: the header is written when the file could be opened
LogAfterOpen(log, openOk) == IF openOk THEN Append(log, HeaderRec) ELSE log

StartTest_Open ==
    /\ pc = "start_open"
    /\ \E openOk \in BOOLEAN :
          /\ fileOpen' = openOk
          /\ logged' = LogAfterOpen(logged, openOk)
    /\ pc' = "start_probe"
    /\ UNCHANGED <<stk, flagV, scaleActive, servoV, probeV, cardExists,
                   maxFileNum, activeFileName, catalog, scans, returned,
                   forceV, dcbV, rampV, scrollLeft, sessions,
                   rowPos, syncAbort, overhead, fixedV>>

ProbeWanted(checked, active) == ~checked /\ active

\* lines 505-506
StartTest_Probe ==
    /\ pc = "start_probe"
    /\ IF ProbeWanted(servoChecked, servoActive)
       THEN Call("cs_begin", "start_done")
       ELSE pc' = "start_done" /\ UNCHANGED stk
    /\ UNCHANGED <<flagV, scaleActive, servoV, servoChecked, startForce,
                   probeOutcome, cardExists, fileV, forceV, dcbV, rampV,
                   scrollLeft, sessions, logV, fixedV>>

\* lines 515-517: back to loop
StartTest_Done ==
    /\ pc = "start_done"
    /\ Return
    /\ UNCHANGED <<flagV, scaleActive, servoV, probeV, cardExists,
                   fileV, forceV, dcbV, rampV, scrollLeft, sessions, logV, fixedV>>

(***************************************************************************)
(* checkServo (lines 311-342); its result is stored by startTest, line 506.*)
(***************************************************************************)
CheckServo_Begin ==
    /\ pc = "cs_begin"
    /\ continueFlag' = TRUE
    /\ press' = FALSE
    /\ CallDelayCheckButton(ProbeSkipMs, FALSE, "cs_base")
    /\ UNCHANGED <<scaleActive, servoV, probeV, cardExists, fileV, forceV,
                   rampV, scrollLeft, sessions, logV, fixedV>>

CheckServo_Base ==
    /\ pc = "cs_base"
    /\ \E f \in Forces : startForce' = f
    /\ CallRampServo(ProbePos, ProbeStepMs, "cs_hold")
    /\ UNCHANGED <<flagV, scaleActive, servoV, servoChecked, probeOutcome,
                   cardExists, fileV, forceV, dcbV, scrollLeft, sessions, logV, fixedV>>

CheckServo_Hold ==
    /\ pc = "cs_hold"
    /\ CallDelayCheckButton(ProbeHoldMs, FALSE, "cs_measure")
    /\ UNCHANGED <<flagV, scaleActive, servoV, probeV, cardExists, fileV, forceV,
                   rampV, scrollLeft, sessions, logV, fixedV>>

CheckServo_Measure ==
    /\ pc = "cs_measure"
    /\ \E f \in Forces : unitForce' = f
    /\ CallRampServo(0, ProbeStepMs, "cs_end")
    /\ UNCHANGED <<flagV, scaleActive, servoV, probeV, cardExists, fileV, maxForce,
                   dcbV, scrollLeft, sessions, logV, fixedV>>

ProbeEndPos(pos) == 0

CheckServo_End ==
    /\ pc = "cs_end"
    /\ servoPos' = ProbeEndPos(servoPos)
    /\ servoOut' = servoPos'
    /\ servoChecked' = ServoFound(continueFlag, startForce, unitForce)
    /\ probeOutcome' = (IF ~continueFlag THEN "skipped"
                        ELSE IF servoChecked' THEN "present" ELSE "absent")
    /\ startForce' = 0
    /\ Return
    /\ UNCHANGED <<flagV, scaleActive, servoStep, cardExists, fileV, forceV,
                   dcbV, rampV, scrollLeft, sessions, logV, fixedV>>

(***************************************************************************)
(* rampServo (lines 299-303).                                              *)
(***************************************************************************)
\* a ramp that does not look at the flag
RampMore_Deaf(pos, setPos, flag) == pos # setPos

\* line 299: while (servoPos != setPos && continueFlag)
RampMore(pos, setPos, flag) == pos # setPos /\ flag

RampServo ==
    /\ pc = "ramp_loop"
    /\ IF RampMore(servoPos, rampSetPos, continueFlag)
       THEN /\ servoPos' = servoPos + rampStep
            /\ servoOut' = servoPos'
            /\ CallDelayCheckButton(rampDt, FALSE, "ramp_loop")
            /\ UNCHANGED <<servoStep, rampV>>
       ELSE /\ Return
            /\ rampSetPos' = 0 /\ rampStep' = 0 /\ rampDt' = 0 /\ rampFrom' = 0
            /\ UNCHANGED <<servoV, dcbV>>
    /\ UNCHANGED <<flagV, scaleActive, probeV, cardExists, fileV, forceV,
                   scrollLeft, sessions, logV, fixedV>>

(***************************************************************************)
(* stepTest, the wait (lines 546-549).  delayCheckButton is called with    *)
(* its default full = true.                                                *)
(***************************************************************************)
StepTest_Wait ==
    /\ pc = "step_begin"
    /\ \E elapsed \in Overheads :
         LET waitRemaining == WaitRemaining(elapsed)
         IN  /\ overhead' = elapsed
             /\ IF waitRemaining > 0
                THEN CallDelayCheckButton(waitRemaining, TRUE, "step_sample")
                ELSE pc' = "step_sample" /\ UNCHANGED <<stk, dcbV>>
    /\ UNCHANGED <<flagV, scaleActive, servoV, probeV, cardExists, fileV, forceV,
                   rampV, scrollLeft, sessions, logged, rowPos, syncAbort,
                   fixedV>>

(***************************************************************************)
(* stepTest, the sample (lines 551-604): read the force, log the row,      *)
(* abort on a failed sync when CONT_SYNC is defined, else advance the      *)
(* servo when it is under automatic control.                               *)
(***************************************************************************)
\* a row that shows the position as it is
LoggedPos_Raw(pos) == pos

\* line 573: int actualServoPos = min(180, servoPos)
LoggedPos(pos) == Min(MaxLoggedPos, pos)

AutoControl(checked, active) == checked /\ active

RampDownStep == -2

\* lines 598-603: the step after the position has been advanced to pos
StepAfterAdvance(pos, step) ==
    IF pos >= maxServoPos THEN RampDownStep
    ELSE IF pos <= 0 THEN 0
    ELSE step

\* lines 598-603: the flag after the position has been advanced to pos
FlagAfterAdvance(pos, flag) ==
    IF pos >= maxServoPos THEN flag
    ELSE IF pos <= 0 THEN FALSE
    ELSE flag

\* line 575: a row is written only with a card
RowWanted(card) == card

\* writeData, lines 360-369: the row reaches the log when the file is open;
\* rows that follow a row are not told apart
LogAfterRow(log, open) ==
    IF open /\ (log = <<>> \/ log[Len(log)] # RowRec)
    THEN Append(log, RowRec)
    ELSE log

\* lines 578-579, compiled when CONT_SYNC is defined
SyncFailed(card, sync, syncOk) == card /\ sync /\ ~syncOk

\* a failed-sync return that leaves the position alone
PosAfterAbort_Kept(checked, active, pos) == pos

\* lines 584-588: position and step after a failed sync
PosAfterAbort(checked, active, pos) ==
    IF AutoControl(checked, active) THEN 0 ELSE pos

StepAfterAbort(checked, active, step) ==
    IF AutoControl(checked, active) THEN 0 ELSE step

OutAfterAbort(checked, active, out) ==
    IF AutoControl(checked, active) THEN 0 ELSE out

StepTest_Sample ==
    /\ pc = "step_sample"
    /\ \E f \in SampleForces, syncOk \in BOOLEAN :
         LET actualServoPos == LoggedPos(servoPos)
         IN  /\ unitForce' = f
             /\ maxForce' = Max(f, maxForce)
             /\ IF RowWanted(cardExists)
                THEN /\ rowPos' = <<actualServoPos>>
                     /\ logged' = LogAfterRow(logged, fileOpen)
                ELSE UNCHANGED <<rowPos, logged>>
             /\ syncAbort' = SyncFailed(cardExists, contSync, syncOk)
             /\ IF SyncFailed(cardExists, contSync, syncOk)
                THEN /\ continueFlag' = FALSE
                     /\ servoPos' = PosAfterAbort(servoChecked, servoActive, servoPos)
                     /\ servoStep' = StepAfterAbort(servoChecked, servoActive, servoStep)
                     /\ servoOut' = OutAfterAbort(servoChecked, servoActive, servoOut)
                ELSE IF AutoControl(servoChecked, servoActive)
                THEN /\ servoPos' = servoPos + servoStep
                     /\ servoOut' = actualServoPos
                     /\ servoStep' = StepAfterAdvance(servoPos', servoStep)
                     /\ continueFlag' = FlagAfterAdvance(servoPos', continueFlag)
                ELSE UNCHANGED <<servoV, continueFlag>>
    /\ overhead' = 0
    /\ Return
    /\ UNCHANGED <<press, scaleActive, probeV, cardExists, fileV,
                   dcbV, rampV, scrollLeft, sessions, fixedV>>

(***************************************************************************)
(* endTest (lines 524-532).                                                *)
(***************************************************************************)
\* endTest without the close
FileAfterClose_Kept(card, open) == open

\* lines 524-526: file.close() with a card
FileAfterClose(card, open) == IF card THEN FALSE ELSE open

EndTest ==
    /\ fileOpen' = FileAfterClose(cardExists, fileOpen)
    /\ maxForce' = 0
    /\ logged' = <<>>
    /\ rowPos' = <<>>
    /\ syncAbort' = FALSE

(***************************************************************************)
(* loop (lines 627-647).                                                   *)
(***************************************************************************)
Loop_Idle ==
    /\ pc = "loop_idle"
    /\ IF IdleCond(continueFlag, scaleActive)
       THEN CallPrintLcdScroll(ReadyPairs, "loop_idle")
       ELSE pc' = "loop_toggle" /\ UNCHANGED <<stk, scrollLeft>>
    /\ UNCHANGED <<flagV, scaleActive, servoV, probeV, cardExists, fileV, forceV,
                   dcbV, rampV, sessions, logV, fixedV>>

\* lines 631-639, with endTest and line 640 when the test is ended
Loop_Toggle ==
    /\ pc = "loop_toggle"
    /\ IF ToggleCond(continueFlag, scaleActive)
       THEN /\ scaleActive' = ~scaleActive
            /\ IF scaleActive'
               THEN /\ sessions < MaxSessions
                    /\ sessions' = sessions + 1
                    /\ continueFlag' = TRUE
                    /\ press' = FALSE
                    /\ Call("start_begin", "loop_after")
                    /\ UNCHANGED <<fileOpen, maxForce, probeOutcome,
                                   logged, rowPos, syncAbort>>
               ELSE /\ EndTest
                    /\ continueFlag' = FlagAfterBranch(TRUE)
                    /\ press' = FALSE
                    /\ probeOutcome' = "none"
                    /\ pc' = "loop_step"
                    /\ UNCHANGED <<stk, sessions>>
       ELSE /\ pc' = "loop_step"
            /\ UNCHANGED <<stk, flagV, scaleActive, sessions, fileOpen, maxForce,
                           probeOutcome, logged, rowPos, syncAbort>>
    /\ UNCHANGED <<servoV, servoChecked, startForce, cardExists,
                   maxFileNum, activeFileName, catalog, scans, returned,
                   unitForce, dcbV, rampV, scrollLeft, overhead, fixedV>>

\* line 640, after startTest has returned
Loop_After ==
    /\ pc = "loop_after"
    /\ continueFlag' = FlagAfterBranch(continueFlag)
    /\ press' = (IF continueFlag' THEN FALSE ELSE press)
    /\ pc' = "loop_step"
    /\ UNCHANGED <<stk, scaleActive, servoV, probeV, cardExists, fileV, forceV,
                   dcbV, rampV, scrollLeft, sessions, logV, fixedV>>

\* lines 643-647
Loop_Step ==
    /\ pc = "loop_step"
    /\ IF StepCond(continueFlag, scaleActive)
       THEN Call("step_begin", "loop_idle") /\ UNCHANGED dcbV
       ELSE CallDelayCheckButton(IdleWaitMs, FALSE, "loop_idle")
    /\ UNCHANGED <<flagV, scaleActive, servoV, probeV, cardExists, fileV, forceV,
                   rampV, scrollLeft, sessions, logV, fixedV>>

(***************************************************************************)
(* The sketch.                                                             *)
(***************************************************************************)
Next ==
    \/ SetupCard
    \/ SetupCard_While
    \/ Loop_Idle
    \/ Loop_Toggle
    \/ Loop_After
    \/ Loop_Step
    \/ StartTest_Begin
    \/ StartTest_Open
    \/ StartTest_Probe
    \/ StartTest_Done
    \/ GetFileName
    \/ GetFileName_Wrap
    \/ CheckServo_Begin
    \/ CheckServo_Base
    \/ CheckServo_Hold
    \/ CheckServo_Measure
    \/ CheckServo_End
    \/ RampServo
    \/ PrintLcdScroll
    \/ DelayCheckButton_Wait
    \/ DelayCheckButton_Release
    \/ StepTest_Wait
    \/ StepTest_Sample

Spec == Init /\ [][Next]_vars

\* the thread always executes its next statement
FairSpec == Spec /\ WF_vars(Next)

TypeOK ==
    /\ continueFlag \in BOOLEAN
    /\ scaleActive \in BOOLEAN
    /\ servoPos \in Int
    /\ servoStep \in {-2, 0, 2}
    /\ sessions \in 0..MaxSessions

(***************************************************************************)
(* The matcher on its own: isMatchingFormat applied to one name drawn from *)
(* prefix x middle x suffix, the middle of up to MaxMiddle characters.     *)
(***************************************************************************)
MaxMiddle == 5

RECURSIVE SeqsUpTo(_, _)
SeqsUpTo(S, n) ==
    IF n = 0 THEN {<<>>}
    ELSE LET shorter == SeqsUpTo(S, n - 1)
         IN  shorter \cup {Append(q, c) : q \in shorter, c \in S}

MatchPrefixes == {TPrefix, <<"T", "_">>, <<"t", "-">>}

MatchSuffixes == {CsvSuffix, <<".", "t", "x", "t">>, <<".", "c", "s">>}

MatchMiddles == SeqsUpTo({"0", "7", "x"}, MaxMiddle)

MatchInputs == {p \o m \o x : p \in MatchPrefixes, m \in MatchMiddles, x \in MatchSuffixes}

InitMatch ==
    /\ InitGlobals
    /\ pc = "match"
    /\ servoChecked = FALSE
    /\ servoActive = TRUE
    /\ contSync = FALSE
    /\ dirNums = {}
    /\ catalog = {}
    /\ matchInput \in MatchInputs
    /\ matchResult = "none"

IsMatchingFormat_Apply ==
    /\ pc = "match"
    /\ matchResult = "none"
    /\ matchResult' = (IF isMatchingFormat(matchInput) THEN "match" ELSE "nomatch")
    /\ UNCHANGED <<flagV, scaleActive, servoV, probeV, cardExists, fileV, forceV,
                   dcbV, rampV, scrollLeft, pc, stk, sessions,
                   logV, servoActive, contSync, dirNums, matchInput>>

MatchNext == IsMatchingFormat_Apply

SpecMatch == InitMatch /\ [][MatchNext]_vars

(***************************************************************************)
(* rampServo on its own: one call rampServo(setPos, 60) with servoPos and  *)
(* setPos drawn from 0..MaxRampPos and the flag true or false at entry.    *)
(***************************************************************************)
MaxRampPos == 4

InitRamp ==
    /\ continueFlag \in BOOLEAN
    /\ press = FALSE
    /\ scaleActive = FALSE
    /\ servoPos \in 0..MaxRampPos
    /\ servoStep = 0
    /\ servoOut = servoPos
    /\ servoChecked = FALSE
    /\ servoActive = TRUE
    /\ startForce = 0
    /\ probeOutcome = "none"
    /\ cardExists = FALSE
    /\ maxFileNum = 0
    /\ activeFileName = NoName
    /\ fileOpen = FALSE
    /\ catalog = {}
    /\ scans = 0
    /\ returned = <<>>
    /\ dirNums = {}
    /\ unitForce = 0
    /\ maxForce = 0
    /\ total = 0
    /\ dcbDt = 0
    /\ dcbFull = FALSE
    /\ buttonState = HIGH
    /\ rampSetPos \in 0..MaxRampPos
    /\ rampStep = 0
    /\ rampDt = 0
    /\ rampFrom = 0
    /\ logged = <<>>
    /\ rowPos = <<>>
    /\ syncAbort = FALSE
    /\ overhead = 0
    /\ scrollLeft = 0
    /\ pc = "ramp_call"
    /\ stk = <<>>
    /\ sessions = 0
    /\ contSync = FALSE
    /\ matchInput = NoName
    /\ matchResult = "none"

\* the call rampServo(setPos, 60), setPos as drawn
RampServo_Apply ==
    /\ pc = "ramp_call"
    /\ CallRampServo(rampSetPos, ProbeStepMs, "ramp_done")
    /\ UNCHANGED <<flagV, scaleActive, servoV, probeV, cardExists, fileV, forceV,
                   dcbV, scrollLeft, sessions, logV, fixedV>>

RampNext ==
    \/ RampServo_Apply
    \/ RampServo
    \/ DelayCheckButton_Wait
    \/ DelayCheckButton_Release

SpecRamp == InitRamp /\ [][RampNext]_vars

(***************************************************************************)
(* Vocabulary of the properties.                                           *)
(***************************************************************************)
OnStack(label) == \E i \in 1..Len(stk) : stk[i] = label

InSetup == pc \in {"setupCard", "setupCard_while"} \/ OnStack("setupCard_while")

InStartTest ==
    \/ pc \in {"start_begin", "start_open", "start_probe", "start_done", "loop_after"}
    \/ OnStack("loop_after")

InCheckServo ==
    \/ pc \in {"cs_begin", "cs_base", "cs_hold", "cs_measure", "cs_end"}
    \/ OnStack("start_done")

InDelayCheckButton == pc \in {"dcb_loop1", "dcb_loop2"}

\* the states of the sequencer
Idle == ~InSetup /\ pc # "match" /\ ~scaleActive

Starting == scaleActive /\ InStartTest

Running == scaleActive /\ ~InStartTest

\* the step returns from the routine in progress
Returns == Len(stk') < Len(stk)

\* the name t_<n>.csv
TName(n) == <<"t", "_">> \o Dec(n) \o <<".", "c", "s", "v">>

\* the largest N among the files t_N.csv on the card at power-up, 0 if none
DirMax == SetMax(dirNums \cup {0})

(***************************************************************************)
(* C1.  Whenever the sequencer is Idle, the position of the actuator is 0, *)
(* after any sequence of sessions.                                         *)
(* Fails: endTest does not touch servoPos, so a session under automatic    *)
(* control that the button stops leaves the position where the sweep was.  *)
(***************************************************************************)
C1_IdleAtZero == Idle => servoPos = 0

(***************************************************************************)
(* C2.  checkServo is called in the first session after power-up and in no *)
(* later session, whatever it returned.                                    *)
(* Fails: servoChecked keeps the result of the probe, so a probe that      *)
(* returned false is repeated by the next startTest.                       *)
(***************************************************************************)
C2_ProbeOnlyInFirstSession ==
    /\ InCheckServo => sessions = 1
    /\ (servoActive /\ sessions = 1 /\ pc = "start_done") => probeOutcome # "none"

(***************************************************************************)
(* C3.  delayCheckButton, rampServo and checkServo return with             *)
(* continueFlag true, and every wait or ramp is entered with continueFlag  *)
(* true.                                                                   *)
(* Fails: none of the three sets the flag back (line 343 of checkServo is  *)
(* behind the returns), so a press in the skip window of the probe also    *)
(* cancels the two ramps and the hold that follow it.                      *)
(***************************************************************************)
C3_FlagResetBeforeReturn ==
    [][ /\ (Returns /\ (InDelayCheckButton \/ pc \in {"ramp_loop", "cs_end"}))
            => continueFlag'
        /\ (pc' \in {"dcb_loop1", "ramp_loop"} /\ pc' # pc /\ ~Returns)
            => continueFlag' ]_vars

(***************************************************************************)
(* C4.  delayCheckButton(dt, true) returns only when the whole of dt has   *)
(* been waited, and a LOW reading in its first loop sets continueFlag to   *)
(* false.                                                                  *)
(* Fails: the second loop returns at the first HIGH reading, so a press    *)
(* that is released ends the wait early.                                   *)
(***************************************************************************)
C4_FullWaitConsumed ==
    [][ /\ (InDelayCheckButton /\ dcbFull /\ Returns) => total >= dcbDt
        /\ (pc = "dcb_loop1" /\ dcbFull /\ total < dcbDt /\ continueFlag
              /\ buttonState' = LOW) => ~continueFlag' ]_vars

(***************************************************************************)
(* C5 as stated.  For every card whose largest t_N.csv has N = M <= 998,   *)
(* once the directory has been crawled, the first getFileName returns      *)
(* t_<M+1>.csv, the second t_<M+2>.csv, and there is one crawl in all.     *)
(* Fails for M = 998: the second number is 1000, getFileName waits for the *)
(* button and returns t_1.csv.                                             *)
(***************************************************************************)
C5_NextTwoNames ==
    (DirMax <= 998 /\ scans >= 1) =>
        /\ scans = 1
        /\ Len(returned) >= 1 => returned[1] = TName(DirMax + 1)
        /\ Len(returned) >= 2 => returned[2] = TName(DirMax + 2)

(***************************************************************************)
(* C5 amended.  When the first getFileName could open the directory: for   *)
(* M <= 998 it returns t_<M+1>.csv; the second call returns t_<M+2>.csv    *)
(* for M <= 997 and t_1.csv for M = 998; the directory is crawled once     *)
(* over all calls.                                                         *)
(***************************************************************************)
C5_NextTwoNamesCrawled ==
    /\ scans <= 1
    /\ (scans = 1 /\ DirMax <= 998) =>
          /\ Len(returned) >= 1 => returned[1] = TName(DirMax + 1)
          /\ (Len(returned) >= 2 /\ DirMax <= 997) => returned[2] = TName(DirMax + 2)
          /\ (Len(returned) >= 2 /\ DirMax = 998) => returned[2] = TName(1)

C5_TwoNamesReturned ==
    /\ scans = 1
    /\ DirMax = 42
    /\ Len(returned) = 2
    /\ pc = "start_open"

(***************************************************************************)
(* C6 as stated.  When the largest number on the card is 999, the first    *)
(* getFileName does not return a name directly; getFileName leaves its     *)
(* notice loop only after a LOW reading of the button, and then returns    *)
(* t_1.csv with maxFileNum = 1 and continueFlag true.                      *)
(***************************************************************************)
C6_WrapNeedsPressAlways ==
    [][ /\ (pc = "gfn_begin" /\ DirMax = 999 /\ maxFileNum = 0)
            => (pc' = "gfn_wait" /\ returned' = returned)
        /\ (pc = "gfn_wait" /\ Returns)
            => /\ press
               /\ activeFileName' = TName(1)
               /\ returned' = Append(returned, TName(1))
               /\ maxFileNum' = 1
               /\ continueFlag' ]_vars

(***************************************************************************)
(* C6 amended.  When the largest number on the card is 999 and the first   *)
(* getFileName could open the directory, it does not return a name         *)
(* directly; getFileName leaves its notice loop only after a LOW reading   *)
(* of the button, and then returns t_1.csv with maxFileNum = 1 and         *)
(* continueFlag true.  When the first getFileName could not open the       *)
(* directory it returns t_1.csv with maxFileNum = 1 directly, without a    *)
(* press.                                                                  *)
(***************************************************************************)
C6_WrapNeedsPress ==
    [][ /\ (pc = "gfn_begin" /\ DirMax = 999 /\ scans = 0 /\ scans' = 1)
            => (pc' = "gfn_wait" /\ returned' = returned)
        /\ (pc = "gfn_wait" /\ Returns)
            => /\ press
               /\ activeFileName' = TName(1)
               /\ returned' = Append(returned, TName(1))
               /\ maxFileNum' = 1
               /\ continueFlag'
        /\ (pc = "gfn_begin" /\ DirMax = 999 /\ maxFileNum = 0 /\ scans' = scans)
            => /\ Returns
               /\ activeFileName' = TName(1)
               /\ returned' = Append(returned, TName(1))
               /\ maxFileNum' = 1
               /\ UNCHANGED flagV ]_vars

C6_WrappedAfterPress ==
    /\ DirMax = 999
    /\ scans = 1
    /\ pc = "start_open"
    /\ returned = <<TName(1)>>
    /\ maxFileNum = 1

(***************************************************************************)
(* C7.  isMatchingFormat is true exactly for "t_", 1 to 3 digits, ".csv".  *)
(* Fails: the length test admits 10 characters, hence 4 digits.            *)
(***************************************************************************)
IsTName(s) ==
    \E k \in 1..3 :
        /\ Len(s) = 6 + k
        /\ SubSeq(s, 1, 2) = <<"t", "_">>
        /\ SubSeq(s, 3 + k, 6 + k) = <<".", "c", "s", "v">>
        /\ \A i \in 3..(2 + k) : s[i] \in {"0", "1", "2", "3", "4", "5", "6", "7", "8", "9"}

C7_MatcherExact ==
    matchResult # "none" => ((matchResult = "match") <=> IsTName(matchInput))

(***************************************************************************)
(* C8.  checkServo returns true exactly when no press was seen during the  *)
(* probe and the force changed by more than MIN_TEST_FORCE; whenever it    *)
(* returns, the position and the servo output are 0.                       *)
(***************************************************************************)
C8_ProbeVerdict ==
    [][ pc = "cs_end" =>
          /\ Returns
          /\ servoChecked' = (~press /\ Abs(unitForce - startForce) > MIN_TEST_FORCE)
          /\ servoPos' = 0
          /\ servoOut' = 0 ]_vars

C8_ProbeReturned ==
    /\ pc = "start_done"
    /\ probeOutcome = "present"
    /\ servoPos = 0

(***************************************************************************)
(* C9.  Once a press has been seen in a sampling tick, no further tick is  *)
(* started: the thread finishes the tick, and the next pass of loop ends   *)
(* the test.                                                               *)
(***************************************************************************)
C9_PressEndsRunning ==
    [][ (Running /\ press) =>
          /\ pc \in {"dcb_loop1", "dcb_loop2", "step_sample", "loop_idle", "loop_toggle"}
          /\ pc' # "step_begin"
          /\ pc = "loop_toggle" => (Idle' /\ ~fileOpen') ]_vars

C9_PressSeenInTick ==
    /\ Running
    /\ press
    /\ pc = "loop_toggle"

(***************************************************************************)
(* C10.  A press during the probe does not abort the test: startTest       *)
(* returns, loop sets continueFlag to true and calls stepTest, with the    *)
(* servo not under automatic control.                                      *)
(***************************************************************************)
C10_SkipStillRuns ==
    [][ /\ (pc = "start_done" /\ probeOutcome = "skipped")
            => (pc' = "loop_after" /\ scaleActive')
        /\ (pc = "loop_after" /\ probeOutcome = "skipped")
            => (continueFlag' /\ scaleActive' /\ pc' = "loop_step")
        /\ (pc = "loop_step" /\ probeOutcome = "skipped")
            => (pc' = "step_begin" /\ continueFlag'
                  /\ ~AutoControl(servoChecked', servoActive')) ]_vars

C10_TickAfterSkip ==
    /\ probeOutcome = "skipped"
    /\ pc = "step_sample"
    /\ Running

(***************************************************************************)
(* C11.  The log of one session.                                           *)
(***************************************************************************)
HeaderThenRows == {<<HeaderRec>>, <<HeaderRec, RowRec>>}

\* C11 as stated: with a card, every session that is running has written
\* the header once and before any row; while the sequencer is idle the
\* file is closed and nothing has been written since the session ended.
C11_HeaderInEverySession ==
    /\ (cardExists /\ Running => logged \in HeaderThenRows)
    /\ (Idle => ~fileOpen /\ logged = <<>> /\ rowPos = <<>>)

\* C11, amended: a session whose file could be opened has written the
\* header once and before any row, a session whose open failed has written
\* nothing to the log; while the sequencer is idle the file is closed and
\* nothing has been written since the session ended.
C11_HeaderWhenOpened ==
    /\ (fileOpen => cardExists /\ scaleActive /\ logged \in HeaderThenRows)
    /\ (~fileOpen => logged = <<>>)
    /\ (Idle => ~fileOpen /\ logged = <<>> /\ rowPos = <<>>)

\* a second session has written its header and a row after the first one
\* was closed
C11_SecondSessionLogged ==
    /\ sessions = 2
    /\ Running
    /\ logged = <<HeaderRec, RowRec>>
    /\ rowPos # <<>>

(***************************************************************************)
(* C12.  No card at mount.                                                 *)
(***************************************************************************)
InGetFileName == pc \in {"gfn_begin", "gfn_wait"} \/ OnStack("gfn_wait")

NoFiling ==
    /\ ~InGetFileName
    /\ pc # "start_open"
    /\ ~OnStack("start_open")
    /\ returned = <<>>
    /\ scans = 0
    /\ maxFileNum = 0
    /\ ~fileOpen
    /\ logged = <<>>
    /\ rowPos = <<>>
    /\ ~syncAbort

\* the phases follow each other in the order Idle, Starting, Running,
\* Idle, and a phase is left only with the flag false
PhasesInOrder ==
    /\ (Idle /\ ~Idle' => Starting' /\ ~continueFlag /\ press)
    /\ (Starting /\ ~Starting' => Running')
    /\ (Running /\ ~Running' => Idle' /\ ~continueFlag)

\* C12: when setupCard found no card, the sequencer still goes from Idle to
\* Starting to Running and back to Idle on button presses, and in no state
\* has getFileName been called, a file been opened, a header or a row been
\* written or the failed-sync return been taken.
C12_NoCardStillSequences ==
    /\ [](~cardExists => NoFiling)
    /\ [][~cardExists => PhasesInOrder]_vars

\* without a card a second session is sampling: the first one went through
\* all the phases
C12_SecondSessionNoCard ==
    /\ ~cardExists
    /\ sessions = 2
    /\ pc = "step_sample"
    /\ maxForce > 0

(***************************************************************************)
(* C13.  The failed sync of a CONT_SYNC build.                             *)
(***************************************************************************)
\* the tick that takes the failed-sync return
AbortTick == pc = "step_sample" /\ syncAbort'

AbortTickEffect ==
    /\ ~continueFlag'
    /\ pc' = "loop_idle"
    /\ IF AutoControl(servoChecked, servoActive)
       THEN servoPos' = 0 /\ servoStep' = 0 /\ servoOut' = 0
       ELSE UNCHANGED servoV

\* C13: in a CONT_SYNC build the tick whose sync fails sets the flag to
\* false, sets position and step to 0 when the servo is under automatic
\* control, and returns without advancing the ramp; from there loop ends
\* the session with no further tick and no further write.
C13_FailedSyncAborts ==
    /\ [][AbortTick => contSync /\ cardExists /\ AbortTickEffect]_vars
    /\ [](syncAbort => /\ scaleActive
                       /\ ~continueFlag
                       /\ pc \in {"loop_idle", "loop_toggle"})
    /\ [][syncAbort /\ pc = "loop_toggle" => Idle' /\ ~fileOpen']_vars

\* the sync has failed in a tick of an automatic sweep that had left 0
C13_SweepAborted ==
    /\ syncAbort
    /\ AutoControl(servoChecked, servoActive)
    /\ rowPos # <<>>
    /\ rowPos[1] > 0
    /\ servoPos = 0
    /\ pc = "loop_toggle"

(***************************************************************************)
(* C14, C15.  rampServo.                                                   *)
(***************************************************************************)
InRampServo == pc = "ramp_loop" \/ OnStack("ramp_loop")

\* one unit towards the target
UnitStepToTarget ==
    /\ Abs(servoPos' - servoPos) = 1
    /\ Abs(rampSetPos - servoPos') = Abs(rampSetPos - servoPos) - 1

\* C14: a call of rampServo(T, dt) that is not cancelled changes the
\* position only by single units towards T, never past T, takes no step
\* when the position is T already, and returns with the position at T.
C14_RampEndsAtTarget ==
    /\ [][InRampServo => servoPos' = servoPos \/ UnitStepToTarget]_vars
    /\ [][pc = "ramp_loop" /\ servoPos = rampSetPos
            => Returns /\ servoPos' = servoPos]_vars
    /\ [][pc = "ramp_loop" /\ Returns /\ continueFlag
            => servoPos = rampSetPos]_vars

\* an uncancelled ramp over at least two units is at its target
C14_RampArrived ==
    /\ pc = "ramp_loop"
    /\ continueFlag
    /\ ~press
    /\ servoPos = rampSetPos
    /\ Abs(rampSetPos - rampFrom) >= 2

\* C15: once the flag is false inside rampServo the position does not
\* change any more and the ramp returns at its next test, so the position
\* at return is the position at the press; it lies between the position at
\* the call and the target; a ramp entered with the flag false takes no
\* step.
C15_CancelledRampStops ==
    /\ [][InRampServo /\ ~continueFlag => servoPos' = servoPos]_vars
    /\ [][pc = "ramp_loop" /\ ~continueFlag => Returns]_vars
    /\ [](InRampServo => /\ Min(rampFrom, rampSetPos) <= servoPos
                         /\ servoPos <= Max(rampFrom, rampSetPos))
    /\ [](InRampServo /\ ~continueFlag /\ ~press => servoPos = rampFrom)

\* a press has stopped a ramp between its start and its target
C15_RampCancelledMidway ==
    /\ pc = "ramp_loop"
    /\ ~continueFlag
    /\ press
    /\ servoPos # rampSetPos
    /\ servoPos # rampFrom

(***************************************************************************)
(* C16.  delayCheckButton.                                                 *)
(***************************************************************************)
AtDelayCheckButton == pc \in {"dcb_loop1", "dcb_loop2"}

\* the delays of the call so far, and the most a call of dt ms may take
DelaysDone == total \div PollMs

CeilPolls(dt) == (dt + PollMs - 1) \div PollMs

\* C16: a call of delayCheckButton(dt, full) has taken at most
\* ceil(dt / 50 ms) delays whatever the button does, every step of it
\* either takes one more delay or moves on in the code, and it writes the
\* flag at most once, at the LOW reading that ends its first loop, and
\* only to false.
C16_WaitBoundedFlagOnce ==
    /\ [](AtDelayCheckButton => DelaysDone <= CeilPolls(dcbDt))
    /\ [][AtDelayCheckButton => total' = total + PollMs \/ pc' # pc]_vars
    /\ [][AtDelayCheckButton /\ continueFlag' # continueFlag
            => /\ continueFlag
               /\ ~continueFlag'
               /\ pc = "dcb_loop1"
               /\ pc' = "dcb_loop2"]_vars

\* a 60 ms wait has been cancelled by a press and has then used up its two
\* delays with the button still held
C16_WaitUsedUp ==
    /\ pc = "dcb_loop2"
    /\ dcbDt = ProbeStepMs
    /\ ~continueFlag
    /\ press
    /\ buttonState = LOW
    /\ DelaysDone = CeilPolls(dcbDt)

(***************************************************************************)
(* C17, C18.  The automatic sweep.                                         *)
(***************************************************************************)
\* the tick of a sweep under automatic control whose sync has not failed
AutoTick ==
    /\ pc = "step_sample"
    /\ AutoControl(servoChecked, servoActive)
    /\ ~syncAbort'

\* C17: a session under automatic control starts its sweep at position 0;
\* every tick moves the position by the step, 2 up or 2 down, within
\* 0..maxServoPos; the step turns to -2 at maxServoPos, and at the tick
\* that brings the position back to 0 the step becomes 0 and the flag
\* false, which ends the session.
C17_SweepFromZero ==
    /\ [][Starting /\ Running' /\ AutoControl(servoChecked', servoActive')
            => servoPos' = 0 /\ servoStep' = StartStep]_vars
    /\ [][AutoTick
            => /\ servoStep \in {StartStep, RampDownStep}
               /\ servoPos' = servoPos + servoStep
               /\ servoPos' \in 0..maxServoPos
               /\ (servoPos' = maxServoPos => servoStep' = RampDownStep)
               /\ (servoPos' = 0 => servoStep' = 0 /\ ~continueFlag')]_vars

\* C18: the position is in 0..maxServoPos in every state.
C18_PosInRange == servoPos \in 0..maxServoPos

(***************************************************************************)
(* C19.  The position of a row.                                            *)
(***************************************************************************)
\* C19: the position given to writeData is in 0..180 whatever servoPos is,
\* and servoPos is never negative.
C19_RowPosInRange ==
    /\ (rowPos # <<>> => rowPos[1] \in 0..MaxLoggedPos)
    /\ servoPos >= 0

\* a row has shown 180 for a position above 180, and the sweep has gone on
\* to maxServoPos
C19_RowClamped ==
    /\ rowPos = <<MaxLoggedPos>>
    /\ servoPos = maxServoPos
    /\ servoStep = RampDownStep
    /\ cardExists

(***************************************************************************)
(* C20.  The wait of a tick.                                               *)
(***************************************************************************)
\* stepTest calls delayCheckButton(dt) with full = true
WaitsFor(dt) ==
    /\ pc' = "dcb_loop1"
    /\ dcbDt' = dt
    /\ dcbFull'

\* C20 as stated: a tick that measures an overhead of e ms since the
\* previous sample performs no wait when e >= 250 and waits 250 - e ms
\* otherwise.
C20_WaitIsRemainder ==
    [][pc = "step_begin"
        => IF overhead' >= SAMPLE_MS
           THEN pc' = "step_sample"
           ELSE WaitsFor(SAMPLE_MS - overhead')]_vars

\* C20, amended: the overhead is counted up to 200 ms only; a tick waits
\* 250 - e ms when e <= 200 and 50 ms when e > 200, so it always waits.
C20_WaitAtLeastFifty ==
    [][pc = "step_begin"
        => IF overhead' <= MaxOverheadCounted
           THEN WaitsFor(SAMPLE_MS - overhead')
           ELSE WaitsFor(SAMPLE_MS - MaxOverheadCounted)]_vars

\* a tick that has measured a whole sample period of overhead is waiting
\* 50 ms
C20_LateTickWaits ==
    /\ pc = "dcb_loop1"
    /\ OnStack("step_sample")
    /\ overhead >= SAMPLE_MS
    /\ dcbDt = SAMPLE_MS - MaxOverheadCounted

(***************************************************************************)
(* C21.  The servo output when a session has ended.                        *)
(***************************************************************************)
\* C21: while the sequencer is idle after a session under automatic
\* control, the value last given to myServo.write is 0.
C21_OutputZeroWhenIdle ==
    Idle /\ AutoControl(servoChecked, servoActive) => servoOut = 0

====
